---- MODULE Spec2Model ----
(***************************************************************************)
(* The party playlist queue of src/app.py: the song list, the per-song     *)
(* like/dislike counters, the genre tally and the per-browser session      *)
(* state (liked_songs, disliked_songs, dj_logged_in, voted_genre).         *)
(* Every Flask view is one action; the sequential specifications handle    *)
(* one request at a time, SpecPar splits the counter updates of            *)
(* toggle_like into a read step and a write step.                          *)
(* The 'timestamp' field of a song (wall clock, display only) is not       *)
(* modelled: no view reads it back.  Flash texts are written in ASCII, and *)
(* the vote notice without the genre name it quotes.                       *)
(***************************************************************************)
EXTENDS Integers, Sequences, FiniteSets, TLC

\* ------------------------------------------------------------- bounds
NumSessions == 2      \* browser sessions (cookies) talking to the server
MaxId == 2            \* add_song is not taken once get_next_id exceeds this
NumGenres == 3        \* the first NumGenres entries of the genres list are used

Sessions == 1..NumSessions
SongIds == 0..MaxId   \* the <int:song_id> values the requests carry

\* src/app.py:33-44
AllGenres ==
  << "Pop", "Rock", "Hip-Hop", "Elektronisch", "Dance",
     "Schlager", "R&B", "Reggae", "Latin", "Alternative" >>

genres == SubSeq(AllGenres, 1, NumGenres)

GenreSet == {genres[i] : i \in DOMAIN genres}

None == "None"        \* Python's None (a missing session key or form field)

\* Form values for /vote: each genre, a name that is no genre, nothing at all.
GenreInputs == GenreSet \cup {"Polka", "", None}

\* Form values for title and artist, as sequences of characters.
TextInputs == { <<>>, <<" ">>, <<"a">>, <<" ", "a", " ">> }

\* Form values for the login password.
Passwords == {"2911", "0000", ""}

VARIABLES
  songs,            \* the list of song dicts, in insertion order
  genre_votes,      \* genre -> vote count
  liked_songs,      \* session -> list of song ids (session['liked_songs'])
  disliked_songs,   \* session -> list of song ids (session['disliked_songs'])
  dj_logged_in,     \* session -> BOOLEAN (session['dj_logged_in'])
  voted_genre,      \* session -> genre or None (session['voted_genre'])
  response,         \* what the last request answered: flash and target
  hist,             \* history: the latest toggles (or votes) made in a row
  issued,           \* history: the ids add_song has assigned so far
  voters,           \* history: the sessions whose vote was ever counted
  pc,               \* SpecPar: session -> position inside its request
  req               \* SpecPar: session -> the request in flight and what it read

vars == << songs, genre_votes, liked_songs, disliked_songs, dj_logged_in,
           voted_genre, response, hist, issued, voters, pc, req >>

\* ------------------------------------------------------------ helpers
Max(S) == CHOOSE x \in S : \A y \in S : y <= x

InList(x, l) == \E i \in DOMAIN l : l[i] = x

\* list.remove(x): drops the first occurrence of x
ListRemove(l, x) ==
  LET i == CHOOSE k \in DOMAIN l : l[k] = x /\ \A j \in 1..(k - 1) : l[j] # x
  IN  SubSeq(l, 1, i - 1) \o SubSeq(l, i + 1, Len(l))

ListSet(l) == {l[i] : i \in DOMAIN l}

RECURSIVE SumVotes(_, _)
SumVotes(gv, G) ==
  IF G = {} THEN 0
  ELSE LET g == CHOOSE x \in G : TRUE IN gv[g] + SumVotes(gv, G \ {g})

\* str.strip() on a sequence of characters (blank is the only whitespace used)
RECURSIVE LStrip(_)
LStrip(t) == IF t # <<>> /\ Head(t) = " " THEN LStrip(Tail(t)) ELSE t

RECURSIVE RStrip(_)
RStrip(t) ==
  IF t # <<>> /\ t[Len(t)] = " " THEN RStrip(SubSeq(t, 1, Len(t) - 1)) ELSE t

\* (mutant) a strip that leaves trailing blanks in place
strip_leading_only(t) == LStrip(t)

strip(t) == RStrip(LStrip(t))

\* ------------------------------------------------------- the history
\* hist holds the latest requests (at most HistLen) that one session made in a
\* row on one target: toggles of one song, or votes.  Each entry keeps what the
\* request found before it acted.  Any other request empties hist.
HistLen == 2

\* The song with this id as a request finds it (present = FALSE: no such song).
SongView(sgs, song_id) ==
  IF \E i \in DOMAIN sgs : sgs[i].id = song_id
  THEN LET song == sgs[CHOOSE i \in DOMAIN sgs : sgs[i].id = song_id]
       IN  [present |-> TRUE, likes |-> song.likes, dislikes |-> song.dislikes]
  ELSE [present |-> FALSE, likes |-> 0, dislikes |-> 0]

ToggleEntry(op, s, song_id) ==
  [ op |-> op, s |-> s, arg |-> song_id,
    song |-> SongView(songs, song_id),
    liked |-> liked_songs[s], disliked |-> disliked_songs[s] ]

VoteEntry(s, selected) ==
  [ op |-> "vote_genre", s |-> s, arg |-> selected,
    votes |-> genre_votes, voted |-> voted_genre[s] ]

SameTarget(e, f) ==
  /\ e.s = f.s
  /\ \/ e.op = "vote_genre" /\ f.op = "vote_genre"
     \/ e.op # "vote_genre" /\ f.op # "vote_genre" /\ e.arg = f.arg

Remember(e) ==
  hist' = IF hist # <<>> /\ SameTarget(hist[Len(hist)], e)
          THEN IF Len(hist) < HistLen THEN Append(hist, e) ELSE Append(Tail(hist), e)
          ELSE << e >>

Forget == hist' = <<>>

\* --------------------------------------------------------- responses
NoFlash == [category |-> "none", message |-> ""]

Flash(category, message) == [category |-> category, message |-> message]

\* What a request answered: which view ran (with its song id, if it takes one),
\* what it flashed and where it redirected to (or which template it rendered).
Respond(op, arg, flash, target) == [op |-> op, arg |-> arg, flash |-> flash, to |-> target]

\* -------------------------------------------------------------- Init
Init ==
  /\ songs = <<>>
  /\ genre_votes = [g \in GenreSet |-> 0]
  /\ liked_songs = [s \in Sessions |-> <<>>]
  /\ disliked_songs = [s \in Sessions |-> <<>>]
  /\ dj_logged_in = [s \in Sessions |-> FALSE]
  /\ voted_genre = [s \in Sessions |-> None]
  /\ response = Respond("none", None, NoFlash, "none")
  /\ hist = <<>>
  /\ issued = {}
  /\ voters = {}
  /\ pc = [s \in Sessions |-> "idle"]
  /\ req = [s \in Sessions |-> [op |-> "none"]]

\* ------------------------------------------------- get_next_id, add_song
\* (mutant) the next id taken from the length of the queue
get_next_id_by_length == Len(songs) + 1

get_next_id == Max({songs[i].id : i \in DOMAIN songs} \cup {0}) + 1

NewSong(title, artist) ==
  [id |-> get_next_id, title |-> title, artist |-> artist, likes |-> 0, dislikes |-> 0]

add_song(title_in, artist_in) ==
  LET title == strip(title_in)
      artist == strip(artist_in)
  IN  /\ Forget
      /\ IF title = <<>>
         THEN /\ response' = Respond("add_song", None, Flash("error", "Bitte gib einen Songtitel ein."), "index")
              /\ UNCHANGED << songs, issued >>
         ELSE IF artist = <<>>
         THEN /\ response' = Respond("add_song", None, Flash("error", "Bitte gib einen Kuenstlernamen ein."), "index")
              /\ UNCHANGED << songs, issued >>
         ELSE /\ songs' = Append(songs, NewSong(title, artist))
              /\ issued' = issued \cup {get_next_id}
              /\ response' = Respond("add_song", None, Flash("success", "Song hinzugefuegt!"), "index")
      /\ UNCHANGED << genre_votes, liked_songs, disliked_songs, dj_logged_in,
                      voted_genre, voters, pc, req >>

\* ------------------------------------------- toggle_like, toggle_dislike
\* for song in songs: if song['id'] == song_id: ... break  (0: no such song)
FindSong(sgs, song_id) ==
  IF \E i \in DOMAIN sgs : sgs[i].id = song_id
  THEN CHOOSE i \in DOMAIN sgs :
         sgs[i].id = song_id /\ \A j \in 1..(i - 1) : sgs[j].id # song_id
  ELSE 0

\* (mutant) the decrement without its "if n > 0" guard
DecUnguarded(n) == n - 1

\* if n > 0: n -= 1
DecFloor(n) == IF n > 0 THEN n - 1 ELSE n

\* (mutant) toggle_like that adds the like and leaves an earlier dislike in place
toggle_like_keeps_dislike(sgs, liked, disliked, song_id) ==
  LET i == FindSong(sgs, song_id) IN
  IF i = 0
  THEN [songs |-> sgs, liked |-> liked, disliked |-> disliked, flash |-> NoFlash]
  ELSE IF InList(song_id, liked)
  THEN [ songs |-> [sgs EXCEPT ![i].likes = DecFloor(@)],
         liked |-> ListRemove(liked, song_id),
         disliked |-> disliked,
         flash |-> Flash("success", "Dein Daumen hoch wurde entfernt.") ]
  ELSE [ songs |-> [sgs EXCEPT ![i].likes = @ + 1],
         liked |-> Append(liked, song_id),
         disliked |-> disliked,
         flash |-> Flash("success", "Daumen hoch abgegeben!") ]

\* The body of toggle_like on the song list and the session's two lists.
toggle_like_body(sgs, liked, disliked, song_id) ==
  LET i == FindSong(sgs, song_id) IN
  IF i = 0
  THEN [songs |-> sgs, liked |-> liked, disliked |-> disliked, flash |-> NoFlash]
  ELSE IF InList(song_id, liked)
  THEN [ songs |-> [sgs EXCEPT ![i].likes = DecFloor(@)],
         liked |-> ListRemove(liked, song_id),
         disliked |-> disliked,
         flash |-> Flash("success", "Dein Daumen hoch wurde entfernt.") ]
  ELSE [ songs |-> [sgs EXCEPT ![i].likes = @ + 1,
                               ![i].dislikes = IF InList(song_id, disliked)
                                               THEN DecFloor(@) ELSE @],
         liked |-> Append(liked, song_id),
         disliked |-> IF InList(song_id, disliked)
                      THEN ListRemove(disliked, song_id) ELSE disliked,
         flash |-> Flash("success", "Daumen hoch abgegeben!") ]

\* (mutant) toggle_dislike that adds the dislike and leaves an earlier like in place
toggle_dislike_keeps_like(sgs, liked, disliked, song_id) ==
  LET i == FindSong(sgs, song_id) IN
  IF i = 0
  THEN [songs |-> sgs, liked |-> liked, disliked |-> disliked, flash |-> NoFlash]
  ELSE IF InList(song_id, disliked)
  THEN [ songs |-> [sgs EXCEPT ![i].dislikes = DecFloor(@)],
         liked |-> liked,
         disliked |-> ListRemove(disliked, song_id),
         flash |-> Flash("success", "Dein Daumen runter wurde entfernt.") ]
  ELSE [ songs |-> [sgs EXCEPT ![i].dislikes = @ + 1],
         liked |-> liked,
         disliked |-> Append(disliked, song_id),
         flash |-> Flash("success", "Daumen runter abgegeben.") ]

\* The body of toggle_dislike.
toggle_dislike_body(sgs, liked, disliked, song_id) ==
  LET i == FindSong(sgs, song_id) IN
  IF i = 0
  THEN [songs |-> sgs, liked |-> liked, disliked |-> disliked, flash |-> NoFlash]
  ELSE IF InList(song_id, disliked)
  THEN [ songs |-> [sgs EXCEPT ![i].dislikes = DecFloor(@)],
         liked |-> liked,
         disliked |-> ListRemove(disliked, song_id),
         flash |-> Flash("success", "Dein Daumen runter wurde entfernt.") ]
  ELSE [ songs |-> [sgs EXCEPT ![i].dislikes = @ + 1,
                               ![i].likes = IF InList(song_id, liked)
                                            THEN DecFloor(@) ELSE @],
         liked |-> IF InList(song_id, liked)
                   THEN ListRemove(liked, song_id) ELSE liked,
         disliked |-> Append(disliked, song_id),
         flash |-> Flash("success", "Daumen runter abgegeben.") ]

toggle_like(s, song_id) ==
  LET r == toggle_like_body(songs, liked_songs[s], disliked_songs[s], song_id) IN
  /\ Remember(ToggleEntry("toggle_like", s, song_id))
  /\ songs' = r.songs
  /\ liked_songs' = [liked_songs EXCEPT ![s] = r.liked]
  /\ disliked_songs' = [disliked_songs EXCEPT ![s] = r.disliked]
  /\ response' = Respond("toggle_like", song_id, r.flash, "index")
  /\ UNCHANGED << genre_votes, dj_logged_in, voted_genre, issued, voters, pc, req >>

toggle_dislike(s, song_id) ==
  LET r == toggle_dislike_body(songs, liked_songs[s], disliked_songs[s], song_id) IN
  /\ Remember(ToggleEntry("toggle_dislike", s, song_id))
  /\ songs' = r.songs
  /\ liked_songs' = [liked_songs EXCEPT ![s] = r.liked]
  /\ disliked_songs' = [disliked_songs EXCEPT ![s] = r.disliked]
  /\ response' = Respond("toggle_dislike", song_id, r.flash, "index")
  /\ UNCHANGED << genre_votes, dj_logged_in, voted_genre, issued, voters, pc, req >>

\* --------------------------------------------- require_dj, remove_song
\* (mutant) a guard that lets every session through
require_dj_anyone(s) == TRUE

\* the decorator lets the view run iff session.get('dj_logged_in') is truthy
require_dj(s) == dj_logged_in[s]

\* (mutant) a removal that drops the song at the head of the queue
WithoutHead(sgs, song_id) == IF sgs = <<>> THEN sgs ELSE Tail(sgs)

\* songs = [s for s in songs if s['id'] != song_id]
WithoutSong(sgs, song_id) == SelectSeq(sgs, LAMBDA x : x.id # song_id)

remove_song(s, song_id) ==
  /\ Forget
  /\ IF require_dj(s)
     THEN /\ songs' = WithoutSong(songs, song_id)
          /\ response' = Respond("remove_song", song_id, Flash("success", "Song aus der Warteschlange entfernt."), "index")
     ELSE /\ songs' = songs
          /\ response' = Respond("remove_song", song_id, Flash("error", "DJ login required"), "login")
  /\ UNCHANGED << genre_votes, liked_songs, disliked_songs, dj_logged_in,
                  voted_genre, issued, voters, pc, req >>

\* -------------------------------------------------------- login, logout
login(s, method, password) ==
  /\ Forget
  /\ IF method = "POST" /\ password = "2911"
     THEN /\ dj_logged_in' = [dj_logged_in EXCEPT ![s] = TRUE]
          /\ response' = Respond("login", None, Flash("success", "Erfolgreich als DJ eingeloggt."), "index")
     ELSE /\ dj_logged_in' = dj_logged_in
          /\ response' = Respond("login", None,
                                 IF method = "POST"
                                 THEN Flash("error", "Falsches Passwort.")
                                 ELSE NoFlash, "login.html")
  /\ UNCHANGED << songs, genre_votes, liked_songs, disliked_songs, voted_genre,
                  issued, voters, pc, req >>

\* (mutant) a logout that leaves the flag in the session
logout_keeps_flag(s) ==
  /\ Forget
  /\ dj_logged_in' = dj_logged_in
  /\ response' = Respond("logout", None, Flash("success", "Abgemeldet."), "index")
  /\ UNCHANGED << songs, genre_votes, liked_songs, disliked_songs, voted_genre,
                  issued, voters, pc, req >>

\* session.pop('dj_logged_in', None)
logout(s) ==
  /\ Forget
  /\ dj_logged_in' = [dj_logged_in EXCEPT ![s] = FALSE]
  /\ response' = Respond("logout", None, Flash("success", "Abgemeldet."), "index")
  /\ UNCHANGED << songs, genre_votes, liked_songs, disliked_songs, voted_genre,
                  issued, voters, pc, req >>

\* ----------------------------------------------------------- vote_genre
\* (mutant) a vote that takes the earlier vote back only from another genre
vote_genre_removes_only_different(gv, previous, selected) ==
  LET removed == IF previous # None /\ previous \in DOMAIN gv /\ gv[previous] > 0
                    /\ previous # selected
                 THEN [gv EXCEPT ![previous] = @ - 1]
                 ELSE gv
  IN  [removed EXCEPT ![selected] = @ + 1]

\* (mutant) a vote that is counted without taking the earlier vote back
vote_genre_keeps_previous(gv, previous, selected) ==
  [gv EXCEPT ![selected] = @ + 1]

\* The tally after a valid vote of a session whose stored choice is previous.
vote_genre_body(gv, previous, selected) ==
  LET removed == IF previous # None /\ previous \in DOMAIN gv /\ gv[previous] > 0
                 THEN [gv EXCEPT ![previous] = @ - 1]
                 ELSE gv
  IN  [removed EXCEPT ![selected] = @ + 1]

vote_genre(s, selected) ==
  /\ Remember(VoteEntry(s, selected))
  /\ IF selected = None \/ selected = "" \/ selected \notin GenreSet
     THEN /\ response' = Respond("vote_genre", None, Flash("error", "Bitte waehle ein gueltiges Genre aus."), "index")
          /\ UNCHANGED << genre_votes, voted_genre, voters >>
     ELSE /\ genre_votes' = vote_genre_body(genre_votes, voted_genre[s], selected)
          /\ voted_genre' = [voted_genre EXCEPT ![s] = selected]
          /\ voters' = voters \cup {s}
          /\ response' = Respond("vote_genre", None, Flash("success", "Deine Stimme wurde gezaehlt!"), "index")
  /\ UNCHANGED << songs, liked_songs, disliked_songs, dj_logged_in, issued, pc, req >>

\* ----------------------------------------------------------- index, data
\* (mutant) the key without its minus sign: fewest likes first
SortKeyLessAscending(a, b) ==
  a.likes < b.likes \/ (a.likes = b.likes /\ a.id < b.id)

\* key=lambda s: (-s['likes'], s['id']): a's key is smaller than b's
SortKeyLess(a, b) ==
  a.likes > b.likes \/ (a.likes = b.likes /\ a.id < b.id)

\* sorted() is stable: an element goes in front of the first one whose key is
\* greater than its own, behind every one whose key is equal
RECURSIVE InsertSorted(_, _)
InsertSorted(x, l) ==
  IF l = <<>> THEN << x >>
  ELSE IF SortKeyLess(x, Head(l)) THEN << x >> \o l
  ELSE << Head(l) >> \o InsertSorted(x, Tail(l))

\* sorted(songs, key=...)
RECURSIVE sorted_songs(_)
sorted_songs(sgs) ==
  IF sgs = <<>> THEN <<>>
  ELSE InsertSorted(sgs[Len(sgs)], sorted_songs(SubSeq(sgs, 1, Len(sgs) - 1)))

\* total_votes = sum(genre_votes.values())
total_votes(gv) == SumVotes(gv, GenreSet)

\* count / total_votes * 100 as the fraction <<numerator, denominator>>
Percentage(count, total) == IF total > 0 THEN << count * 100, total >> ELSE << 0, 1 >>

genre_data(gv) ==
  [ i \in DOMAIN genres |->
      [ genre |-> genres[i], votes |-> gv[genres[i]],
        percentage |-> Percentage(gv[genres[i]], total_votes(gv)) ] ]

\* (mutant) a maximum search that lets a later equal count win
BeatsOrTies(count, best) == count >= best

\* max() keeps the first item: a later one replaces it only if it is greater
Beats(count, best) == count > best

\* max(genre_votes.items(), key=lambda item: item[1])[0], from item i on
RECURSIVE MaxItem(_, _, _)
MaxItem(gv, best, i) ==
  IF i > Len(genres) THEN genres[best]
  ELSE MaxItem(gv, IF Beats(gv[genres[i]], gv[genres[best]]) THEN i ELSE best, i + 1)

top_genre(gv) == IF total_votes(gv) > 0 THEN MaxItem(gv, 1, 2) ELSE None

\* GET /data: the JSON snapshot
data ==
  /\ Forget
  /\ response' = [ op |-> "data", arg |-> None, flash |-> NoFlash, to |-> "json",
                   songs |-> sorted_songs(songs),
                   genres |-> genre_data(genre_votes),
                   total_votes |-> total_votes(genre_votes),
                   top_genre |-> top_genre(genre_votes) ]
  /\ UNCHANGED << songs, genre_votes, liked_songs, disliked_songs, dj_logged_in,
                  voted_genre, issued, voters, pc, req >>

\* GET /: the page, rendered for session s
index(s) ==
  /\ Forget
  /\ response' = [ op |-> "index", arg |-> None, flash |-> NoFlash, to |-> "index.html",
                   songs |-> sorted_songs(songs),
                   dj_logged_in |-> dj_logged_in[s],
                   liked_songs |-> liked_songs[s],
                   disliked_songs |-> disliked_songs[s],
                   genres |-> genre_data(genre_votes),
                   total_votes |-> total_votes(genre_votes),
                   top_genre |-> top_genre(genre_votes),
                   voted_genre |-> voted_genre[s] ]
  /\ UNCHANGED << songs, genre_votes, liked_songs, disliked_songs, dj_logged_in,
                  voted_genre, issued, voters, pc, req >>

\* ------------------------------------------------------ specifications
\* the form passes add_song's two checks
Accepted(title_in, artist_in) == strip(title_in) # <<>> /\ strip(artist_in) # <<>>

\* a submission is not taken once it would assign an id above cap
AddSongUpTo(cap) ==
  \E t \in TextInputs, a \in TextInputs :
    /\ Accepted(t, a) => get_next_id <= cap
    /\ add_song(t, a)

AddSong == AddSongUpTo(MaxId)
ToggleLike == \E s \in Sessions, id \in SongIds : toggle_like(s, id)
ToggleDislike == \E s \in Sessions, id \in SongIds : toggle_dislike(s, id)
RemoveSong == \E s \in Sessions, id \in SongIds : remove_song(s, id)
Login ==
  \E s \in Sessions :
    \/ login(s, "GET", "")
    \/ \E p \in Passwords : login(s, "POST", p)
Logout == \E s \in Sessions : logout(s)
VoteGenre == \E s \in Sessions, g \in GenreInputs : vote_genre(s, g)
Data == data
Index == \E s \in Sessions : index(s)

\* the song queue, one request at a time
NextQueue ==
  AddSong \/ ToggleLike \/ ToggleDislike \/ RemoveSong \/ Login \/ Logout
    \/ Data \/ Index

SpecQueue == Init /\ [][NextQueue]_vars

\* the genre ballot, one request at a time
NextVote == VoteGenre \/ Data \/ Index

SpecVote == Init /\ [][NextVote]_vars

\* submissions and removals alone, one request at a time, with more ids
MaxLongId == 4        \* the id cap of SpecIds

AddSongLong == AddSongUpTo(MaxLongId)
RemoveSongLong == \E s \in Sessions, id \in 0..MaxLongId : remove_song(s, id)

NextIds == AddSongLong \/ RemoveSongLong \/ Login \/ Logout \/ Data \/ Index

SpecIds == Init /\ [][NextIds]_vars

\* every view, one request at a time
Next == NextQueue \/ NextVote

Spec == Init /\ [][Next]_vars

\* ------------------------------------------- toggle_like, step by step
\* Requests handled in parallel, without a lock: song['likes'] += 1 is a read
\* of the counter, then a write of the value read plus one, and another
\* request may run in between.  A session has one request in flight; its two
\* lists travel in its cookie and are stored when its request ends.
MaxCount == 2         \* a like is not started on a counter that reads this much
MaxParSongs == 1      \* songs submitted while like requests interleave

\* (mutant) an atomic update: the write adds to what the counter holds now
StoredCountAtomic(current, read, delta) == current + delta

\* the value "counter += delta" writes, having read the counter earlier
StoredCount(current, read, delta) == read + delta

Idle(s) == pc[s] = "idle"

ParLikeBegin(s, song_id) ==
  LET i == FindSong(songs, song_id) IN
  /\ Idle(s)
  /\ i # 0
  /\ IF InList(song_id, liked_songs[s])
     THEN /\ req' = [req EXCEPT ![s] = [op |-> "toggle_like", id |-> song_id,
                                        branch |-> "unlike", read |-> songs[i].likes]]
          /\ pc' = [pc EXCEPT ![s] = IF songs[i].likes > 0 THEN "like_write" ELSE "finish"]
     ELSE /\ songs[i].likes < MaxCount
          /\ req' = [req EXCEPT ![s] = [op |-> "toggle_like", id |-> song_id,
                                        branch |-> "like", read |-> songs[i].likes]]
          /\ pc' = [pc EXCEPT ![s] = "like_write"]
  /\ UNCHANGED << songs, genre_votes, liked_songs, disliked_songs, dj_logged_in,
                  voted_genre, response, hist, issued, voters >>

ParLikeWrite(s) ==
  LET i == FindSong(songs, req[s].id)
      delta == IF req[s].branch = "like" THEN 1 ELSE -1
  IN  /\ pc[s] = "like_write"
      /\ songs' = [songs EXCEPT ![i].likes = StoredCount(@, req[s].read, delta)]
      /\ pc' = [pc EXCEPT ![s] =
                  IF req[s].branch = "like" /\ InList(req[s].id, disliked_songs[s])
                  THEN "dislike_read" ELSE "finish"]
      /\ UNCHANGED << genre_votes, liked_songs, disliked_songs, dj_logged_in,
                      voted_genre, response, hist, issued, voters, req >>

\* if song['dislikes'] > 0: song['dislikes'] -= 1   (the read)
ParDislikeRead(s) ==
  LET i == FindSong(songs, req[s].id) IN
  /\ pc[s] = "dislike_read"
  /\ req' = [req EXCEPT ![s].read = songs[i].dislikes]
  /\ pc' = [pc EXCEPT ![s] = IF songs[i].dislikes > 0 THEN "dislike_write" ELSE "finish"]
  /\ UNCHANGED << songs, genre_votes, liked_songs, disliked_songs, dj_logged_in,
                  voted_genre, response, hist, issued, voters >>

\* (the write)
ParDislikeWrite(s) ==
  LET i == FindSong(songs, req[s].id) IN
  /\ pc[s] = "dislike_write"
  /\ songs' = [songs EXCEPT ![i].dislikes = StoredCount(@, req[s].read, -1)]
  /\ pc' = [pc EXCEPT ![s] = "finish"]
  /\ UNCHANGED << genre_votes, liked_songs, disliked_songs, dj_logged_in,
                  voted_genre, response, hist, issued, voters, req >>

\* session['liked_songs'] = liked; session['disliked_songs'] = disliked; redirect
ParLikeFinish(s) ==
  LET id == req[s].id IN
  /\ pc[s] = "finish"
  /\ IF req[s].branch = "unlike"
     THEN /\ liked_songs' = [liked_songs EXCEPT ![s] = ListRemove(@, id)]
          /\ disliked_songs' = disliked_songs
          /\ response' = Respond("toggle_like", id,
                                 Flash("success", "Dein Daumen hoch wurde entfernt."), "index")
     ELSE /\ liked_songs' = [liked_songs EXCEPT ![s] = Append(@, id)]
          /\ disliked_songs' = [disliked_songs EXCEPT ![s] =
                                  IF InList(id, @) THEN ListRemove(@, id) ELSE @]
          /\ response' = Respond("toggle_like", id,
                                 Flash("success", "Daumen hoch abgegeben!"), "index")
  /\ pc' = [pc EXCEPT ![s] = "idle"]
  /\ UNCHANGED << songs, genre_votes, dj_logged_in, voted_genre, hist, issued,
                  voters, req >>

\* a dislike request that no other request interrupts
ParToggleDislike(s, song_id) ==
  LET r == toggle_dislike_body(songs, liked_songs[s], disliked_songs[s], song_id) IN
  /\ Idle(s)
  /\ FindSong(songs, song_id) # 0
  /\ ~ InList(song_id, disliked_songs[s]) => SongView(songs, song_id).dislikes < MaxCount
  /\ songs' = r.songs
  /\ liked_songs' = [liked_songs EXCEPT ![s] = r.liked]
  /\ disliked_songs' = [disliked_songs EXCEPT ![s] = r.disliked]
  /\ response' = Respond("toggle_dislike", song_id, r.flash, "index")
  /\ req' = [req EXCEPT ![s] = [op |-> "toggle_dislike"]]
  /\ UNCHANGED << genre_votes, dj_logged_in, voted_genre, hist, issued, voters, pc >>

\* a submission that no other request interrupts
ParAddSong(title_in, artist_in) ==
  /\ Len(songs) < MaxParSongs
  /\ Accepted(title_in, artist_in) => get_next_id <= MaxId
  /\ add_song(title_in, artist_in)

LikeBegin == \E s \in Sessions, id \in SongIds : ParLikeBegin(s, id)
LikeWrite == \E s \in Sessions : ParLikeWrite(s)
DislikeRead == \E s \in Sessions : ParDislikeRead(s)
DislikeWrite == \E s \in Sessions : ParDislikeWrite(s)
LikeFinish == \E s \in Sessions : ParLikeFinish(s)
DislikeAlone == \E s \in Sessions, id \in SongIds : ParToggleDislike(s, id)
AddAlone == \E t \in TextInputs, a \in TextInputs : ParAddSong(t, a)

\* the song queue with like requests interleaving
NextPar ==
  AddAlone \/ LikeBegin \/ LikeWrite \/ DislikeRead \/ DislikeWrite \/ LikeFinish
    \/ DislikeAlone

SpecPar == Init /\ [][NextPar]_vars

\* ======================================================================
\* The claims
\* ======================================================================
Toggles == {"toggle_like", "toggle_dislike"}

\* hist shows that session s made these two requests on song id in a row
InARow(op1, op2, s, id) ==
  /\ Len(hist) = 2
  /\ hist[1].op = op1 /\ hist[2].op = op2
  /\ hist[1].s = s /\ hist[1].arg = id

\* C1 (as claimed): every id a successful submitSong assigns is greater than
\* every id assigned before it, so no id is ever assigned twice, also after
\* the song that held it was removed.
C1_IdsStrictlyIncreasing ==
  [][ Len(songs') = Len(songs) + 1
        => \A x \in issued : songs'[Len(songs')].id > x ]_vars

\* C2: in every reachable state, for every session and every song id, the id
\* is in at most one of the session's liked list and disliked list.
C2_LikedDislikedExclusive ==
  \A s \in Sessions, id \in SongIds :
    ~ (InList(id, liked_songs[s]) /\ InList(id, disliked_songs[s]))

\* C2 witness: a session that had disliked a song in the queue has just liked it.
C2_Witness ==
  \E s \in Sessions, id \in SongIds :
    /\ hist # <<>>
    /\ LET e == hist[Len(hist)] IN
         /\ e.op = "toggle_like" /\ e.s = s /\ e.arg = id
         /\ e.song.present /\ InList(id, e.disliked)
    /\ InList(id, liked_songs[s])

\* C4 (as claimed): after toggleLike(id, s) twice in a row on a song of the
\* queue, the song's like count is what it was before the first call.
C4_LikeTwiceRestoresCount ==
  \A s \in Sessions, id \in SongIds :
    (InARow("toggle_like", "toggle_like", s, id) /\ hist[1].song.present)
      => SongView(songs, id).likes = hist[1].song.likes

\* C5 (as claimed): after toggleLike(id, s) twice in a row the song's two
\* counts and the session's liked and disliked sets are what they were before
\* the first call, whatever the session's earlier vote on the song.
C5_LikeTwiceIsNoOp ==
  \A s \in Sessions, id \in SongIds :
    InARow("toggle_like", "toggle_like", s, id)
      => /\ SongView(songs, id) = hist[1].song
         /\ ListSet(liked_songs[s]) = ListSet(hist[1].liked)
         /\ ListSet(disliked_songs[s]) = ListSet(hist[1].disliked)

\* n calls of toggle_like in a row on the same song by the same session
RECURSIVE LikeTimes(_, _, _, _, _)
LikeTimes(n, sgs, liked, disliked, song_id) ==
  IF n = 0
  THEN [songs |-> sgs, liked |-> liked, disliked |-> disliked]
  ELSE LET r == toggle_like_body(sgs, liked, disliked, song_id)
       IN  LikeTimes(n - 1, r.songs, r.liked, r.disliked, song_id)

MaxCalls == 4         \* the longest run of toggleLike calls examined

EvenCounts == {n \in 1..MaxCalls : n % 2 = 0}

\* C5 (amended): from every reachable state, an even number of toggleLike(id, s)
\* calls in a row leaves every other song and the session's liked set as they
\* were; the disliked set and the dislike count are as they were unless the
\* session had disliked the song, and then exactly that dislike is undone (id
\* out of the disliked set, the count one lower but not below 0); the like
\* count is as it was unless the session held a like on the song while the
\* count was 0, and then the count ends at 1.
C5_EvenLikesUndoOnlyADislike ==
  \A s \in Sessions, id \in SongIds, n \in EvenCounts :
    LET r == LikeTimes(n, songs, liked_songs[s], disliked_songs[s], id)
        before == SongView(songs, id)
        after == SongView(r.songs, id)
        wasLiked == InList(id, liked_songs[s])
        wasDisliked == InList(id, disliked_songs[s])
    IN  /\ Len(r.songs) = Len(songs)
        /\ \A i \in DOMAIN songs : songs[i].id # id => r.songs[i] = songs[i]
        /\ \A i \in DOMAIN songs :
             /\ r.songs[i].id = songs[i].id
             /\ r.songs[i].title = songs[i].title
             /\ r.songs[i].artist = songs[i].artist
        /\ ListSet(r.liked) = ListSet(liked_songs[s])
        /\ after.present = before.present
        /\ ListSet(r.disliked) =
             IF before.present THEN ListSet(disliked_songs[s]) \ {id}
             ELSE ListSet(disliked_songs[s])
        /\ after.dislikes =
             IF before.present /\ wasDisliked /\ before.dislikes > 0
             THEN before.dislikes - 1
             ELSE before.dislikes
        /\ after.likes =
             IF before.present /\ wasLiked /\ before.likes = 0 THEN 1
             ELSE before.likes

\* C5 witness: a session that had disliked a song of the queue called
\* toggleLike on it twice in a row, and its dislike is gone.
C5_Witness ==
  \E s \in Sessions, id \in SongIds :
    /\ InARow("toggle_like", "toggle_like", s, id)
    /\ hist[1].song.present /\ InList(id, hist[1].disliked)
    /\ hist[1].song.dislikes > 0
    /\ SongView(songs, id).dislikes = hist[1].song.dislikes - 1
    /\ SongView(songs, id).likes = hist[1].song.likes
    /\ ~ InList(id, disliked_songs[s]) /\ ~ InList(id, liked_songs[s])

\* C6 (as claimed): toggleLike and toggleDislike on a song id that is not in
\* the queue report an error to the caller and change no counter and neither
\* list of the session.
C6_MissingSongIsAnError ==
  [][ \A s \in Sessions, id \in SongIds :
        ((toggle_like(s, id) \/ toggle_dislike(s, id)) /\ FindSong(songs, id) = 0)
          => /\ response'.flash.category = "error"
             /\ songs' = songs
             /\ liked_songs' = liked_songs
             /\ disliked_songs' = disliked_songs ]_vars

\* C7: when a session that has neither liked nor disliked a song of the queue
\* calls toggleLike and then toggleDislike on it, the like count is back at
\* its original value, the dislike count is one higher, and the id is in the
\* session's disliked list and not in its liked list.
C7_LikeThenDislike ==
  \A s \in Sessions, id \in SongIds :
    ( /\ InARow("toggle_like", "toggle_dislike", s, id)
      /\ hist[1].song.present
      /\ ~ InList(id, hist[1].liked) /\ ~ InList(id, hist[1].disliked) )
      => /\ SongView(songs, id).likes = hist[1].song.likes
         /\ SongView(songs, id).dislikes = hist[1].song.dislikes + 1
         /\ InList(id, disliked_songs[s])
         /\ ~ InList(id, liked_songs[s])

\* C7 witness: such a like-then-dislike pair has happened on a song that
\* another session likes.
C7_Witness ==
  \E s \in Sessions, id \in SongIds :
    /\ InARow("toggle_like", "toggle_dislike", s, id)
    /\ hist[1].song.present /\ hist[1].song.likes > 0
    /\ ~ InList(id, hist[1].liked) /\ ~ InList(id, hist[1].disliked)
    /\ hist[2].song.likes = hist[1].song.likes + 1
    /\ InList(id, disliked_songs[s])

\* C8: a removeSong request of a session whose DJ flag is not set answers with
\* the error "DJ login required", redirects to the login page and leaves the
\* song list as it was, whether or not the id is in the queue.
C8_RemoveNeedsDj ==
  [][ \A s \in Sessions, id \in SongIds :
        (remove_song(s, id) /\ ~ dj_logged_in[s])
          => /\ songs' = songs
             /\ response'.flash = Flash("error", "DJ login required")
             /\ response'.to = "login" ]_vars

\* C8 witness: a removeSong for a song of the queue was just refused.
C8_Witness ==
  /\ response.op = "remove_song"
  /\ response.flash.category = "error"
  /\ FindSong(songs, response.arg) # 0

\* ------------------------------------------------------------- C9
\* the latest request of session s was a like it added to song id, now complete
AddedLike(s, id) ==
  /\ Idle(s)
  /\ req[s].op = "toggle_like" /\ req[s].branch = "like" /\ req[s].id = id
  /\ InList(id, liked_songs[s])

\* C9: with requests in parallel and each counter update a read step and a
\* write step, the write of an added like stores the count read plus one
\* whatever the counter holds by then, so an update made in between is lost.
C9_WriteStoresWhatWasReadPlusOne ==
  [][ \A s \in Sessions :
        (ParLikeWrite(s) /\ req[s].branch = "like")
          => SongView(songs', req[s].id).likes = req[s].read + 1 ]_vars

\* C9 witness: two different sessions have each added a like to the same song,
\* both now hold it in their liked list, and its like count is only 1 more
\* than what both of them read.
C9_Witness ==
  \E a \in Sessions, b \in Sessions, id \in SongIds :
    /\ a # b
    /\ AddedLike(a, id) /\ AddedLike(b, id)
    /\ req[a].read = req[b].read
    /\ SongView(songs, id).likes = req[a].read + 1

\* ------------------------------------------------------- C3 and C10
\* C3: in every reachable state the genre counts add up to the number of
\* sessions whose current genre choice is not null.
C3_VotesMatchChoices ==
  SumVotes(genre_votes, GenreSet)
    = Cardinality({s \in Sessions : voted_genre[s] # None})

\* C3 witness: a session has moved its vote from one genre to another while
\* every session has a choice.
C3_Witness ==
  /\ hist # <<>>
  /\ LET e == hist[Len(hist)] IN
       /\ e.arg \in GenreSet
       /\ e.voted \in GenreSet /\ e.voted # e.arg
       /\ voted_genre[e.s] = e.arg
  /\ \A s \in Sessions : voted_genre[s] # None

\* hist shows that session s voted g1 and then g2 in a row
VotedInARow(s, g1, g2) ==
  /\ Len(hist) = 2
  /\ hist[1].op = "vote_genre" /\ hist[2].op = "vote_genre"
  /\ hist[1].s = s
  /\ hist[1].arg = g1 /\ hist[2].arg = g2

\* C10 (as claimed): after voteGenre(G1, s) and voteGenre(G2, s) in a row, for
\* distinct genres, G1's count is what it was before the first vote and G2's
\* count is one higher; and the counts never add up to more than the number of
\* sessions that have voted.
C10_VoteThenVote ==
  /\ \A s \in Sessions, g1 \in GenreSet, g2 \in GenreSet :
       (g1 # g2 /\ VotedInARow(s, g1, g2))
         => /\ genre_votes[g1] = hist[1].votes[g1]
            /\ genre_votes[g2] = hist[1].votes[g2] + 1
  /\ SumVotes(genre_votes, GenreSet) <= Cardinality(voters)

\* C10 (amended): after such a pair of votes G1's count is what it was before
\* the first vote, unless the session's choice was G1 already, and then it is
\* one lower; G2's count is one higher, unless the session's choice was G2,
\* and then it is what it was; and the counts never add up to more than the
\* number of sessions that have voted.
C10_VoteThenVoteByEarlierChoice ==
  /\ \A s \in Sessions, g1 \in GenreSet, g2 \in GenreSet :
       (g1 # g2 /\ VotedInARow(s, g1, g2))
         => /\ genre_votes[g1] =
                 IF hist[1].voted = g1 THEN hist[1].votes[g1] - 1
                 ELSE hist[1].votes[g1]
            /\ genre_votes[g2] =
                 IF hist[1].voted = g2 THEN hist[1].votes[g2]
                 ELSE hist[1].votes[g2] + 1
  /\ SumVotes(genre_votes, GenreSet) <= Cardinality(voters)

\* C10 witness: a session whose choice was a third genre voted G1 and then G2,
\* after another session had voted G1.
C10_Witness ==
  \E s \in Sessions, g1 \in GenreSet, g2 \in GenreSet :
    /\ g1 # g2 /\ VotedInARow(s, g1, g2)
    /\ hist[1].voted \in GenreSet \ {g1, g2}
    /\ hist[1].votes[g1] > 0
    /\ genre_votes[g1] = hist[1].votes[g1]
    /\ genre_votes[g2] = hist[1].votes[g2] + 1


\* ------------------------------------------------------------- C11
\* C11: when a session whose current choice is genre G has just voted G
\* again, every genre count, G's included, is what it was before that vote,
\* and the session's choice is still G.
C11_RevoteChangesNothing ==
  hist # <<>> =>
    LET e == hist[Len(hist)] IN
      (e.op = "vote_genre" /\ e.arg \in GenreSet /\ e.voted = e.arg)
        => /\ genre_votes = e.votes
           /\ voted_genre[e.s] = e.arg

\* C11 witness: a session has just voted again for its own genre, which
\* another session has chosen too.
C11_Witness ==
  /\ hist # <<>>
  /\ LET e == hist[Len(hist)] IN
       /\ e.op = "vote_genre" /\ e.arg \in GenreSet /\ e.voted = e.arg
       /\ e.votes[e.arg] = 2
       /\ genre_votes[e.arg] = 2


\* ------------------------------------------------------------- C12
\* C12: for every reachable queue, the list the index page and /data show
\* holds exactly the songs of the queue, each once, by like count descending
\* and, among songs with equal like count, by id ascending.
C12_ListSongsSorted ==
  LET r == sorted_songs(songs) IN
    /\ Len(r) = Len(songs)
    /\ \A x \in ListSet(songs) \cup ListSet(r) :
         Cardinality({i \in DOMAIN r : r[i] = x})
           = Cardinality({i \in DOMAIN songs : songs[i] = x})
    /\ \A i \in DOMAIN r, j \in DOMAIN r :
         i < j => \/ r[i].likes > r[j].likes
                  \/ r[i].likes = r[j].likes /\ r[i].id < r[j].id
    /\ response.op \in {"data", "index"} => response.songs = r

\* C12 witness: /data has just listed two songs with the later-submitted,
\* better-liked one first.
C12_Witness ==
  /\ response.op = "data"
  /\ Len(songs) = 2 /\ songs[1].id < songs[2].id
  /\ response.songs = << songs[2], songs[1] >>
  /\ songs[2].likes > songs[1].likes


\* ------------------------------------------------------------- C18
\* C18: the songs of the queue always have pairwise different ids, and the id
\* a submission assigns is the greatest id in the queue plus 1, or 1 when the
\* queue is empty.
C18_DistinctIdsNextIsMaxPlusOne ==
  [][ /\ \A i \in DOMAIN songs', j \in DOMAIN songs' :
           i # j => songs'[i].id # songs'[j].id
      /\ Len(songs') = Len(songs) + 1
           => songs'[Len(songs')].id =
                IF songs = <<>> THEN 1
                ELSE (CHOOSE m \in {songs[i].id : i \in DOMAIN songs} :
                        \A i \in DOMAIN songs : songs[i].id <= m) + 1 ]_vars

\* C18 witness: with song 1 removed and song 2 alone in the queue, a
\* submission has just been given id 3.
C18_Witness ==
  /\ response.op = "add_song" /\ response.flash.category = "success"
  /\ Len(songs) = 2
  /\ songs[1].id = 2 /\ songs[2].id = 3


\* ------------------------------------------------------------- C13
\* x is t without its leading and trailing blanks
IsTrimOf(x, t) ==
  \E i \in 0..Len(t), j \in 0..Len(t) :
    /\ i + j <= Len(t)
    /\ x = SubSeq(t, i + 1, Len(t) - j)
    /\ \A k \in 1..i : t[k] = " "
    /\ \A k \in (Len(t) - j + 1)..Len(t) : t[k] = " "
    /\ x # <<>> => x[1] # " " /\ x[Len(x)] # " "

TrimOf(t) ==
  CHOOSE x \in {SubSeq(t, i, j) : i \in 1..(Len(t) + 1), j \in 0..Len(t)} : IsTrimOf(x, t)

\* C13: a submission whose trimmed title is empty is refused with the title
\* error and leaves the queue unchanged; otherwise one whose trimmed artist is
\* empty is refused with the artist error and leaves the queue unchanged;
\* otherwise exactly one song is appended, holding the trimmed title and
\* artist with 0 likes and 0 dislikes.
C13_AddSongValidatesThenAppends ==
  [][ \A t \in TextInputs, a \in TextInputs :
        add_song(t, a) =>
          IF TrimOf(t) = <<>>
          THEN /\ songs' = songs
               /\ response'.flash = [category |-> "error", message |-> "Bitte gib einen Songtitel ein."]
          ELSE IF TrimOf(a) = <<>>
          THEN /\ songs' = songs
               /\ response'.flash = [category |-> "error", message |-> "Bitte gib einen Kuenstlernamen ein."]
          ELSE /\ Len(songs') = Len(songs) + 1
               /\ SubSeq(songs', 1, Len(songs)) = songs
               /\ songs'[Len(songs')].title = TrimOf(t)
               /\ songs'[Len(songs')].artist = TrimOf(a)
               /\ songs'[Len(songs')].likes = 0
               /\ songs'[Len(songs')].dislikes = 0
               /\ response'.flash.category = "success" ]_vars

\* C13 witness: a submission with a title and a blank artist has just been
\* refused with the artist error, the queue holding the songs it held before.
C13_Witness ==
  /\ response.op = "add_song"
  /\ response.flash = [category |-> "error", message |-> "Bitte gib einen Kuenstlernamen ein."]
  /\ Len(songs) = 2
  /\ \A i \in DOMAIN songs : songs[i].title = <<"a">> /\ songs[i].likes = 0


\* ------------------------------------------------------------- C14
\* C14: the reported top genre is absent when no vote is counted; otherwise it
\* is a genre with the greatest count, and no genre earlier in the genre list
\* has that count.  The data and index views report exactly this genre.
C14_TopGenreIsFirstMaximum ==
  LET top == top_genre(genre_votes)
      total == SumVotes(genre_votes, GenreSet)
  IN  /\ total = 0 => top = None
      /\ total > 0 =>
           \E i \in DOMAIN genres :
             /\ top = genres[i]
             /\ \A g \in GenreSet : genre_votes[g] <= genre_votes[top]
             /\ \A j \in 1..(i - 1) : genre_votes[genres[j]] < genre_votes[top]
      /\ response.op \in {"data", "index"} => response.top_genre = top

\* C14 witness: the data view has just reported the second genre of the list
\* as top genre while the third genre has the same count and the first has none.
C14_Witness ==
  /\ response.op = "data"
  /\ genre_votes[genres[1]] = 0
  /\ genre_votes[genres[2]] = 1
  /\ genre_votes[genres[3]] = 1
  /\ response.top_genre = genres[2]


\* ------------------------------------------------------------- C15
\* C15: a removal by a DJ session answers with success; when no song has the
\* id the queue is unchanged, and when a song has it the queue afterwards is
\* the queue before with that one song taken out, every other song unchanged
\* and in its place.
C15_DjRemoveTakesOutThatSongOnly ==
  [][ \A s \in Sessions, id \in SongIds :
        (remove_song(s, id) /\ dj_logged_in[s]) =>
          /\ response'.flash.category = "success"
          /\ response'.to = "index"
          /\ (\A i \in DOMAIN songs : songs[i].id # id) => songs' = songs
          /\ (\E i \in DOMAIN songs : songs[i].id = id) =>
               \E k \in DOMAIN songs :
                 /\ songs[k].id = id
                 /\ songs' = SubSeq(songs, 1, k - 1) \o SubSeq(songs, k + 1, Len(songs)) ]_vars

\* C15 witness: a DJ has just removed the second song of the queue; the first,
\* which has a like, is still there.
C15_Witness ==
  /\ response.op = "remove_song" /\ response.flash.category = "success"
  /\ response.arg = 2 /\ 2 \in issued
  /\ Len(songs) = 1
  /\ songs[1].id = 1 /\ songs[1].likes = 1


\* ------------------------------------------------------------- C16
\* C16: each song's like count is the number of sessions whose liked list
\* holds the song's id, and its dislike count the number of sessions whose
\* disliked list holds it.
C16_CountsMatchSessionLists ==
  \A i \in DOMAIN songs :
    /\ songs[i].likes = Cardinality({s \in Sessions : InList(songs[i].id, liked_songs[s])})
    /\ songs[i].dislikes = Cardinality({s \in Sessions : InList(songs[i].id, disliked_songs[s])})


\* ------------------------------------------------------------- C17
\* C17: a song leaves the queue only in a removal asked by a session whose DJ
\* flag is set; a flag becomes set only in that session's login with the
\* password "2911" and becomes unset only in that session's logout; a login
\* with another password leaves every flag as it is; a logout leaves the
\* session's flag unset; and a removal asked by a session without the flag
\* changes neither the queue nor any flag.
C17_OnlyDjRemovesAndOnlyPasswordMakesDj ==
  [][ /\ (\E i \in DOMAIN songs : \A j \in DOMAIN songs' : songs'[j].id # songs[i].id)
           => \E s \in Sessions, id \in 0..MaxLongId : remove_song(s, id) /\ dj_logged_in[s]
      /\ \A s \in Sessions :
           /\ (~dj_logged_in[s] /\ dj_logged_in'[s]) => login(s, "POST", "2911")
           /\ (dj_logged_in[s] /\ ~dj_logged_in'[s]) => logout(s)
           /\ logout(s) => ~dj_logged_in'[s]
           /\ \A method \in {"GET", "POST"}, password \in Passwords \ {"2911"} :
                login(s, method, password) => dj_logged_in' = dj_logged_in
           /\ \A id \in 0..MaxLongId :
                (remove_song(s, id) /\ ~dj_logged_in[s])
                  => songs' = songs /\ dj_logged_in' = dj_logged_in ]_vars

\* C17 witness: a song was removed earlier, no session has the DJ flag any
\* more, and a removal of the song still in the queue has just been refused.
C17_Witness ==
  /\ \E id \in issued : \A i \in DOMAIN songs : songs[i].id # id
  /\ \A s \in Sessions : ~dj_logged_in[s]
  /\ response.op = "remove_song" /\ response.flash.category = "error"
  /\ \E i \in DOMAIN songs : songs[i].id = response.arg

====
